---- MODULE Spec2Model ----
(***************************************************************************)
(* A model of src/main.py: the two-stage enrichment function               *)
(* classify_and_generate (primary/fallback failover, sentiment gate) and   *)
(* the Kafka loop around it (poll, parse, enrich, merge, publish, sleep,   *)
(* interrupt, close).                                                      *)
(*                                                                         *)
(* Texts are TLA+ strings and Python's str methods are computed on them    *)
(* character by character.  A character outside ASCII is written in the    *)
(* escaped form json.dumps gives it (the cross mark U+274C is \u274c).     *)
(*                                                                         *)
(* A Python dict is a sequence of <<key, value>> pairs with distinct keys, *)
(* in insertion order.  A JSON value is a tagged tuple: <<"str", text>>,   *)
(* <<"num", literal>>, <<"null">>, <<"arr">>, <<"obj", pairs>>.            *)
(***************************************************************************)
EXTENDS Integers, Sequences, FiniteSets, TLC

VARIABLES
    pc,            \* the statement the main thread is at
    polls,         \* number of consumer.poll calls made so far
    msg,           \* module global msg (line 144)
    payload,       \* module global payload (line 152)
    notes,         \* module global notes (line 153), the argument of the call
    result,        \* module global result (line 158)
    sentiment,     \* classify_and_generate local (lines 102, 106)
    prompt,        \* classify_and_generate local (line 123)
    calls,         \* the invocations the backends received for the record in hand
    enriched,      \* module global enriched (line 161)
    published,     \* for each message handed to the output topic, in order,
                   \* the number of the poll that returned the record it is for
    lastLog,       \* the last line printed
    exc,           \* the exception propagating at module level, if any
    interrupted,   \* whether the external interrupt has been delivered
    closed         \* number of consumer.close calls made

vars == <<pc, polls, msg, payload, notes, result, sentiment, prompt,
          calls, enriched, published, lastLog, exc, interrupted, closed>>

-----------------------------------------------------------------------------
(* Bounds *)

\* consumer.poll is called at most this many times in a run
MaxPolls == 3

-----------------------------------------------------------------------------
(* Python str methods *)

\* the ASCII characters str.strip() removes
IsSpace(c) == c \in {" ", "\t", "\n", "\r", "\f"}

RECURSIVE LStrip(_)
LStrip(t) ==
    IF Len(t) > 0 /\ IsSpace(SubSeq(t, 1, 1))
    THEN LStrip(SubSeq(t, 2, Len(t)))
    ELSE t

RECURSIVE RStrip(_)
RStrip(t) ==
    IF Len(t) > 0 /\ IsSpace(SubSeq(t, Len(t), Len(t)))
    THEN RStrip(SubSeq(t, 1, Len(t) - 1))
    ELSE t

\* str.lstrip() in the place of str.strip()
StripLeftOnly(t) == LStrip(t)

\* str.strip()
Strip(t) == RStrip(LStrip(t))

UpperChars == <<"A", "B", "C", "D", "E", "F", "G", "H", "I", "J", "K", "L", "M",
                "N", "O", "P", "Q", "R", "S", "T", "U", "V", "W", "X", "Y", "Z">>
LowerChars == <<"a", "b", "c", "d", "e", "f", "g", "h", "i", "j", "k", "l", "m",
                "n", "o", "p", "q", "r", "s", "t", "u", "v", "w", "x", "y", "z">>

LowerChar(c) ==
    IF \E i \in 1..Len(UpperChars) : UpperChars[i] = c
    THEN LowerChars[CHOOSE i \in 1..Len(UpperChars) : UpperChars[i] = c]
    ELSE c

RECURSIVE Lower(_)
\* str.lower()
Lower(t) ==
    IF Len(t) = 0 THEN ""
    ELSE LowerChar(SubSeq(t, 1, 1)) \o Lower(SubSeq(t, 2, Len(t)))

\* str.startswith(prefix)
StartsWith(t, prefix) ==
    /\ Len(t) >= Len(prefix)
    /\ SubSeq(t, 1, Len(prefix)) = prefix

-----------------------------------------------------------------------------
(* Python dict and json *)

Keys(d) == {d[i][1] : i \in 1..Len(d)}

HasKey(d, k) == k \in Keys(d)

\* d[k]
Lookup(d, k) == d[CHOOSE i \in 1..Len(d) : d[i][1] = k][2]

\* d.get(k, default)
DictGet(d, k, default) == IF HasKey(d, k) THEN Lookup(d, k) ELSE default

\* d[k] = v : an existing key keeps its place, a new key is added last
DictSet(d, k, v) ==
    IF HasKey(d, k)
    THEN [i \in 1..Len(d) |-> IF d[i][1] = k THEN <<k, v>> ELSE d[i]]
    ELSE Append(d, <<k, v>>)

RECURSIVE FoldPairs(_, _)
FoldPairs(pairs, d) ==
    IF Len(pairs) = 0 THEN d
    ELSE FoldPairs(Tail(pairs), DictSet(d, pairs[1][1], pairs[1][2]))

\* json.loads of a document that is an object: a repeated name keeps its
\* first place and its last value
LoadObject(pairs) == FoldPairs(pairs, <<>>)

IsStr(v) == v[1] = "str"
Str(t) == <<"str", t>>
Obj(d) == <<"obj", d>>

-----------------------------------------------------------------------------
(* Prompt templates (lines 59-97) *)

\* sentiment_prompt.format(notes=n)
FormatSentimentPrompt(n) ==
    "\nClassify the following cold call notes as one of the following sentiment labels:\n"
    \o "- Positive\n- Neutral / Follow-up Required\n- Negative\n\nNotes:\n"
    \o n
    \o "\n\nReturn only the label and reason.\n"

\* action_prompt.format(notes=n, sentiment=s)
FormatActionPrompt(n, s) ==
    "\nYou are a sales assistant for a Kafka-based platform called Condense.\n\n"
    \o "The following are notes from a recent cold call:\n\""
    \o n
    \o "\"\n\nSentiment label: "
    \o s
    \o "\n\nBased on this:\n- If the sentiment label is \"Positive\":\n"
    \o "  - Carefully read the caller notes and come up with the sales reachout plan step by step which should be customised based on caller notes. Write ready-to-consume reachout and sales plan.\n\n"
    \o "- If the sentiment label is \"Follow-up Required\" or \"Neutral\":\n"
    \o "  - Check the caller notes.\n"
    \o "  - If there are signs of mild interest, or open-ended comments, come up with the sales reachout plan step by step which should be customised based on caller notes. Write ready-to-consume reachout and sales plan.\n\n"
    \o "- If the sentiment label is \"Negative\":\n"
    \o "  - Do not suggest any follow-up. Just say: \"No further action recommended based on negative sentiment.\"\n\n"
    \o "Respond clearly and helpfully.\n"

-----------------------------------------------------------------------------
(* The generation backends (lines 46-56): an invocation returns a message   *)
(* whose content is a text, or raises an Exception whose str() is a text.   *)

Primary == "groq_primary_llm"
Fallback == "groq_fallback_llm"

\* str(e) of the exceptions an invocation raises
Errors == {"request timed out", "rate limit exceeded"}

\* .content of the messages a backend returns for the sentiment prompt
ClassifyContents ==
    { "Positive: asked for pricing\n",
      " NEGATIVE - tone was curt",
      "Negative",
      "negative",
      "Not negative: wants a callback",
      "Unknown",
      "" }

\* .content of the messages a backend returns for the action prompt
ActionContents ==
    { " 1. Send the pricing sheet\n2. Book a demo \n",
      "" }

Outcomes(contents) ==
    [ok : {TRUE}, text : contents] \cup [ok : {FALSE}, text : Errors]

\* one invocation llm.invoke(p), recorded in the order made
Invoked(llm, p, o) ==
    Append(calls, [llm |-> llm, prompt |-> p, ok |-> o.ok, text |-> o.text])

-----------------------------------------------------------------------------
(* classify_and_generate (lines 100-138) *)

\* the value of a local that is not bound
Unbound == "<unbound>"

\* the dict literals of lines 108-113, 116-121 and 133-138
ResultDict(n, label, reason, actions) ==
    << <<"Caller Notes", Str(n)>>,
       <<"Sentiment Label", Str(label)>>,
       <<"Reason", Str(reason)>>,
       <<"Next Action Items", Str(actions)>> >>

\* lines 108-113
UnknownResult(n, e2) ==
    ResultDict(n, "Unknown",
               "\\u274c Both LLMs failed for sentiment: " \o e2,
               "\\u274c Skipped due to classification error")

\* lines 116-121
NegativeResult(n, s) ==
    ResultDict(n, s, "Negative sentiment detected",
               "\\u274c No action recommended due to negative sentiment.")

\* line 131
ActionFailedText(e2) == "\\u274c Both LLMs failed for action generation: " \o e2

\* lines 133-138
ActionResult(n, s, items) ==
    ResultDict(n, s, "Sentiment identified via Groq LLM", items)

\* line 115 with `"negative" in sentiment.lower()` for the startswith test
IsNegativeAnywhere(s) ==
    \E i \in 1..Len(s) :
        /\ i + 7 <= Len(s)
        /\ Lower(SubSeq(s, i, i + 7)) = "negative"

\* line 115 without .lower()
IsNegativeCaseSensitive(s) == StartsWith(s, "negative")

\* line 115
IsNegative(s) == StartsWith(Lower(s), "negative")

\* return r to line 158: the frame's locals are gone, result is bound
Return(r) ==
    /\ result' = r
    /\ sentiment' = Unbound
    /\ prompt' = Unbound
    /\ pc' = "merge"

\* lines 101-104 with the primary passed over once an earlier record has
\* gone through
ClassifyPrimarySticky ==
    /\ pc = "classify_primary"
    /\ \E o \in Outcomes(ClassifyContents) :
        /\ calls' = Invoked(IF Len(published) > 0 THEN Fallback ELSE Primary,
                            FormatSentimentPrompt(notes), o)
        /\ IF o.ok
           THEN /\ sentiment' = Strip(o.text)
                /\ pc' = "gate"
           ELSE /\ sentiment' = sentiment
                /\ pc' = "classify_fallback"
    /\ UNCHANGED <<polls, msg, payload, notes, result, prompt, enriched, published,
                   lastLog, exc, interrupted, closed>>

\* lines 101-104 with the two backends swapped
ClassifyPrimarySwapped ==
    /\ pc = "classify_primary"
    /\ \E o \in Outcomes(ClassifyContents) :
        /\ calls' = Invoked(Fallback, FormatSentimentPrompt(notes), o)
        /\ IF o.ok
           THEN /\ sentiment' = Strip(o.text)
                /\ pc' = "gate"
           ELSE /\ sentiment' = sentiment
                /\ pc' = "classify_fallback"
    /\ UNCHANGED <<polls, msg, payload, notes, result, prompt, enriched, published,
                   lastLog, exc, interrupted, closed>>

\* lines 101-104
ClassifyPrimary ==
    /\ pc = "classify_primary"
    /\ \E o \in Outcomes(ClassifyContents) :
        /\ calls' = Invoked(Primary, FormatSentimentPrompt(notes), o)
        /\ IF o.ok
           THEN /\ sentiment' = Strip(o.text)
                /\ pc' = "gate"
                /\ lastLog' = lastLog
           ELSE /\ sentiment' = sentiment
                /\ pc' = "classify_fallback"
                /\ lastLog' = "\\u26a0\\ufe0f Primary sentiment LLM failed: " \o o.text
                              \o "\n\\ud83d\\udd01 Using fallback."
    /\ UNCHANGED <<polls, msg, payload, notes, result, prompt, enriched, published,
                   exc, interrupted, closed>>

\* lines 105-113 without the inner try: the fallback's exception leaves the
\* function
ClassifyFallbackUncaught ==
    /\ pc = "classify_fallback"
    /\ \E o \in Outcomes(ClassifyContents) :
        /\ calls' = Invoked(Fallback, FormatSentimentPrompt(notes), o)
        /\ IF o.ok
           THEN /\ sentiment' = Strip(o.text)
                /\ pc' = "gate"
                /\ exc' = exc
           ELSE /\ sentiment' = Unbound
                /\ pc' = "except"
                /\ exc' = "Exception"
    /\ UNCHANGED <<polls, msg, payload, notes, result, prompt, enriched, published,
                   lastLog, interrupted, closed>>

\* lines 105-113 with the label set to "Unknown" instead of returning
ClassifyFallbackFallsThrough ==
    /\ pc = "classify_fallback"
    /\ \E o \in Outcomes(ClassifyContents) :
        /\ calls' = Invoked(Fallback, FormatSentimentPrompt(notes), o)
        /\ sentiment' = IF o.ok THEN Strip(o.text) ELSE "Unknown"
        /\ pc' = "gate"
    /\ UNCHANGED <<polls, msg, payload, notes, result, prompt, enriched, published,
                   lastLog, exc, interrupted, closed>>

\* lines 105-113
ClassifyFallback ==
    /\ pc = "classify_fallback"
    /\ \E o \in Outcomes(ClassifyContents) :
        /\ calls' = Invoked(Fallback, FormatSentimentPrompt(notes), o)
        /\ IF o.ok
           THEN /\ sentiment' = Strip(o.text)
                /\ pc' = "gate"
                /\ UNCHANGED <<result, prompt>>
           ELSE Return(UnknownResult(notes, o.text))
    /\ UNCHANGED <<polls, msg, payload, notes, enriched, published, lastLog,
                   exc, interrupted, closed>>

\* lines 115-123 without the test of line 115
GateAlwaysActs ==
    /\ pc = "gate"
    /\ prompt' = FormatActionPrompt(notes, sentiment)
    /\ pc' = "action_primary"
    /\ UNCHANGED <<result, sentiment>>
    /\ UNCHANGED <<polls, msg, payload, notes, calls, enriched, published, lastLog,
                   exc, interrupted, closed>>

\* lines 115-123
Gate ==
    /\ pc = "gate"
    /\ IF IsNegative(sentiment)
       THEN Return(NegativeResult(notes, sentiment))
       ELSE /\ prompt' = FormatActionPrompt(notes, sentiment)
            /\ pc' = "action_primary"
            /\ UNCHANGED <<result, sentiment>>
    /\ UNCHANGED <<polls, msg, payload, notes, calls, enriched, published, lastLog,
                   exc, interrupted, closed>>

\* lines 124-127 with the primary invoked a second time after it failed
ActionPrimaryRetries ==
    /\ pc = "action_primary"
    /\ \E o \in Outcomes(ActionContents) :
        /\ calls' = Invoked(Primary, prompt, o)
        /\ IF o.ok
           THEN /\ Return(ActionResult(notes, sentiment, Strip(o.text)))
                /\ lastLog' = lastLog
           ELSE /\ pc' = IF calls[Len(calls)].prompt # prompt
                         THEN "action_primary" ELSE "action_fallback"
                /\ lastLog' = "\\u26a0\\ufe0f Primary action LLM failed: " \o o.text
                              \o "\n\\ud83d\\udd01 Using fallback."
                /\ UNCHANGED <<result, sentiment, prompt>>
    /\ UNCHANGED <<polls, msg, payload, notes, enriched, published,
                   exc, interrupted, closed>>

\* lines 124-127 and 133-138 without .strip()
ActionPrimaryNoStrip ==
    /\ pc = "action_primary"
    /\ \E o \in Outcomes(ActionContents) :
        /\ calls' = Invoked(Primary, prompt, o)
        /\ IF o.ok
           THEN Return(ActionResult(notes, sentiment, o.text))
           ELSE /\ pc' = "action_fallback"
                /\ UNCHANGED <<result, sentiment, prompt>>
    /\ UNCHANGED <<polls, msg, payload, notes, enriched, published, lastLog,
                   exc, interrupted, closed>>

\* lines 124-127, and 133-138 when the primary answers
ActionPrimary ==
    /\ pc = "action_primary"
    /\ \E o \in Outcomes(ActionContents) :
        /\ calls' = Invoked(Primary, prompt, o)
        /\ IF o.ok
           THEN /\ Return(ActionResult(notes, sentiment, Strip(o.text)))
                /\ lastLog' = lastLog
           ELSE /\ pc' = "action_fallback"
                /\ lastLog' = "\\u26a0\\ufe0f Primary action LLM failed: " \o o.text
                              \o "\n\\ud83d\\udd01 Using fallback."
                /\ UNCHANGED <<result, sentiment, prompt>>
    /\ UNCHANGED <<polls, msg, payload, notes, enriched, published,
                   exc, interrupted, closed>>

\* lines 128-138 with a Reason of its own for a failed action chain
ActionFallbackOwnReason ==
    /\ pc = "action_fallback"
    /\ \E o \in Outcomes(ActionContents) :
        /\ calls' = Invoked(Fallback, prompt, o)
        /\ IF o.ok
           THEN Return(ActionResult(notes, sentiment, Strip(o.text)))
           ELSE Return(ResultDict(notes, sentiment, ActionFailedText(o.text),
                                  ActionFailedText(o.text)))
    /\ UNCHANGED <<polls, msg, payload, notes, enriched, published, lastLog,
                   exc, interrupted, closed>>

\* lines 128-138 without the inner try: the fallback's exception leaves the
\* function
ActionFallbackUncaught ==
    /\ pc = "action_fallback"
    /\ \E o \in Outcomes(ActionContents) :
        /\ calls' = Invoked(Fallback, prompt, o)
        /\ IF o.ok
           THEN /\ Return(ActionResult(notes, sentiment, Strip(o.text)))
                /\ exc' = exc
           ELSE /\ sentiment' = Unbound
                /\ prompt' = Unbound
                /\ result' = result
                /\ pc' = "except"
                /\ exc' = "Exception"
    /\ UNCHANGED <<polls, msg, payload, notes, enriched, published, lastLog,
                   interrupted, closed>>

\* lines 128-138
ActionFallback ==
    /\ pc = "action_fallback"
    /\ \E o \in Outcomes(ActionContents) :
        /\ calls' = Invoked(Fallback, prompt, o)
        /\ LET action_items == IF o.ok THEN Strip(o.text)
                               ELSE ActionFailedText(o.text)
           IN  Return(ActionResult(notes, sentiment, action_items))
    /\ UNCHANGED <<polls, msg, payload, notes, enriched, published, lastLog,
                   exc, interrupted, closed>>

-----------------------------------------------------------------------------
(* The Kafka loop (lines 141-175) *)

\* what msg.value() can hold: no value, bytes that are not UTF-8, text that
\* is not JSON, or a JSON document (an object is given with its members as
\* written, a name possibly repeated)
RawValues ==
    { <<"none">>,
      <<"bytes", "\\xff\\xfe">>,
      <<"text", "comments=hello">>,
      <<"json", <<"arr">>>>,
      <<"json", Obj(<< <<"id", <<"num", "7">>>> >>)>>,
      <<"json", Obj(<< <<"id", <<"num", "8">>>>, <<"comments", Str("")>> >>)>>,
      <<"json", Obj(<< <<"comments", Str(" \n\t ")>> >>)>>,
      <<"json", Obj(<< <<"comments", <<"num", "5">>>> >>)>>,
      <<"json", Obj(<< <<"comments", <<"null">>>> >>)>>,
      <<"json", Obj(<< <<"id", <<"num", "9">>>>,
                       <<"comments", Str(" Customer loved the demo, wants pricing info \n")>>,
                       <<"agent", Str("kim")>> >>)>>,
      <<"json", Obj(<< <<"result", Str("stale")>>,
                       <<"comments", Str("Not interested")>> >>)>> }

\* str(msg.error()) of a message that carries an error
KafkaErrors == {"Broker transport failure"}

\* msg is None
NoneMsg == [none |-> TRUE, seq |-> 0, error |-> "", value |-> <<"none">>]

\* json.loads(text)
JsonLoads(v) == IF v[1] = "obj" THEN Obj(LoadObject(v[2])) ELSE v

\* json.dumps(value).encode("utf-8")
JsonDumps(v) == <<"json", v>>

\* line 154 without the test
IsBlankNever(n) == FALSE

\* `not notes` (line 154)
IsBlank(n) == n = ""

\* the statements of the while loop, where an interrupt can arrive
LoopPcs == {"poll", "parse", "classify_primary", "classify_fallback", "gate",
            "action_primary", "action_fallback", "merge", "produce", "flush",
            "except", "sleep"}

EnginePcs == {"classify_primary", "classify_fallback", "gate",
              "action_primary", "action_fallback"}

Init ==
    /\ pc = "poll"
    /\ polls = 0
    /\ msg = NoneMsg
    /\ payload = <<"null">>
    /\ notes = Unbound
    /\ result = <<>>
    /\ sentiment = Unbound
    /\ prompt = Unbound
    /\ calls = <<>>
    /\ enriched = <<"none">>
    /\ published = <<>>
    /\ lastLog = "\\ud83d\\udce1 Listening to Kafka topic: "
    /\ exc = "none"
    /\ interrupted = FALSE
    /\ closed = 0

\* lines 144-146: poll times out
PollNone ==
    /\ pc = "poll"
    /\ polls < MaxPolls
    /\ polls' = polls + 1
    /\ msg' = NoneMsg
    /\ pc' = "poll"
    /\ UNCHANGED <<payload, notes, result, sentiment, prompt, calls,
                   enriched, published, lastLog, exc, interrupted, closed>>

\* lines 144-149: poll returns a message whose error() is set
PollError ==
    /\ pc = "poll"
    /\ polls < MaxPolls
    /\ polls' = polls + 1
    /\ \E e \in KafkaErrors :
        /\ msg' = [none |-> FALSE, seq |-> polls + 1, error |-> e,
                   value |-> <<"none">>]
        /\ lastLog' = "\\u26a0\\ufe0f Kafka error: " \o e
    /\ pc' = "poll"
    /\ UNCHANGED <<payload, notes, result, sentiment, prompt, calls,
                   enriched, published, exc, interrupted, closed>>

\* lines 144-151: poll returns a record
PollMessage ==
    /\ pc = "poll"
    /\ polls < MaxPolls
    /\ polls' = polls + 1
    /\ \E raw \in RawValues :
        msg' = [none |-> FALSE, seq |-> polls + 1, error |-> "", value |-> raw]
    /\ pc' = "parse"
    /\ UNCHANGED <<payload, notes, result, sentiment, prompt, calls,
                   enriched, published, lastLog, exc, interrupted, closed>>

\* line 144: the poll call itself raises an Exception; the while loop is in
\* no try block that catches it (line 172 catches KeyboardInterrupt only)
PollRaises ==
    /\ pc = "poll"
    /\ polls < MaxPolls
    /\ polls' = polls + 1
    /\ exc' = "Exception"
    /\ pc' = "finally"
    /\ UNCHANGED <<msg, payload, notes, result, sentiment, prompt, calls,
                   enriched, published, lastLog, interrupted, closed>>

\* back to line 143.  msg, payload, notes and enriched are each assigned
\* again (lines 144, 152, 153, 161) before the loop reads them, so the values
\* they still hold from the record just left are not kept in the state.
NextIteration ==
    /\ msg' = NoneMsg
    /\ payload' = <<"null">>
    /\ notes' = Unbound
    /\ enriched' = <<"none">>
    /\ pc' = "poll"

\* an Exception raised inside the try block of lines 151-164
Raise ==
    /\ exc' = "Exception"
    /\ pc' = "except"

\* lines 152-158
Parse ==
    /\ pc = "parse"
    /\ LET raw == msg.value IN
       IF raw[1] # "json"
       THEN /\ Raise
            /\ UNCHANGED <<msg, payload, notes, enriched, calls, lastLog>>
       ELSE LET p == JsonLoads(raw[2]) IN
            IF p[1] # "obj"
            THEN /\ payload' = p
                 /\ Raise
                 /\ UNCHANGED <<msg, notes, enriched, calls, lastLog>>
            ELSE LET c == DictGet(p[2], "comments", Str("")) IN
                 IF ~IsStr(c)
                 THEN /\ payload' = p
                      /\ Raise
                      /\ UNCHANGED <<msg, notes, enriched, calls, lastLog>>
                 ELSE LET n == Strip(c[2]) IN
                      IF IsBlank(n)
                      THEN /\ lastLog' = "\\u26a0\\ufe0f Skipping empty comment field"
                           /\ NextIteration
                           /\ UNCHANGED <<calls, exc>>
                      ELSE /\ payload' = p
                           /\ notes' = n
                           /\ calls' = <<>>
                           /\ pc' = "classify_primary"
                           /\ UNCHANGED <<msg, enriched, lastLog, exc>>
    /\ UNCHANGED <<polls, result, sentiment, prompt, published,
                   interrupted, closed>>

\* line 159 with the trimmed notes stored back into the payload
MergeStoresNotes ==
    /\ pc = "merge"
    /\ payload' = Obj(DictSet(DictSet(payload[2], "comments", Str(notes)),
                              "result", Obj(result)))
    /\ pc' = "produce"
    /\ UNCHANGED <<polls, msg, notes, result, sentiment, prompt, calls,
                   enriched, published, lastLog, exc, interrupted, closed>>

\* line 159
Merge ==
    /\ pc = "merge"
    /\ payload' = Obj(DictSet(payload[2], "result", Obj(result)))
    /\ pc' = "produce"
    /\ UNCHANGED <<polls, msg, notes, result, sentiment, prompt, calls,
                   enriched, published, lastLog, exc, interrupted, closed>>

\* lines 161-162 with produce called twice
ProduceTwice ==
    /\ pc = "produce"
    /\ enriched' = JsonDumps(payload)
    /\ published' = published \o <<msg.seq, msg.seq>>
    /\ pc' = "flush"
    /\ UNCHANGED <<polls, msg, payload, notes, result, sentiment, prompt,
                   calls, lastLog, exc, interrupted, closed>>

\* lines 161-162 with a record whose classification failed left out of the
\* output
ProduceSkipsUnknown ==
    /\ pc = "produce"
    /\ IF Lookup(result, "Sentiment Label")[2] = "Unknown"
       THEN UNCHANGED <<enriched, published>>
       ELSE /\ enriched' = JsonDumps(payload)
            /\ published' = Append(published, msg.seq)
    /\ pc' = "flush"
    /\ UNCHANGED <<polls, msg, payload, notes, result, sentiment, prompt,
                   calls, lastLog, exc, interrupted, closed>>

\* lines 161-162
Produce ==
    /\ pc = "produce"
    /\ enriched' = JsonDumps(payload)
    /\ published' = Append(published, msg.seq)
    /\ pc' = "flush"
    /\ UNCHANGED <<polls, msg, payload, notes, result, sentiment, prompt,
                   calls, lastLog, exc, interrupted, closed>>

\* lines 161-162: produce raises (BufferError, KafkaException)
ProduceRaises ==
    /\ pc = "produce"
    /\ enriched' = JsonDumps(payload)
    /\ Raise
    /\ UNCHANGED <<polls, msg, payload, notes, result, sentiment, prompt,
                   calls, published, lastLog, interrupted, closed>>

\* lines 163-164
Flush ==
    /\ pc = "flush"
    /\ lastLog' = "\\u2705 Published enriched message to "
    /\ calls' = <<>>
    /\ pc' = "sleep"
    /\ UNCHANGED <<polls, msg, payload, notes, result, sentiment, prompt,
                   enriched, published, exc, interrupted, closed>>

\* lines 166-168
HandleError ==
    /\ pc = "except"
    /\ lastLog' = "[PROCESSING ERROR]"
    /\ exc' = "none"
    /\ calls' = <<>>
    /\ pc' = "sleep"
    /\ UNCHANGED <<polls, msg, payload, notes, result, sentiment, prompt,
                   enriched, published, interrupted, closed>>

\* line 170, then line 143; result, assigned again at line 158 before line
\* 159 reads it, is not kept either
Sleep ==
    /\ pc = "sleep"
    /\ NextIteration
    /\ result' = <<>>
    /\ UNCHANGED <<polls, sentiment, prompt, calls, published, lastLog,
                   exc, interrupted, closed>>

\* SIGINT: KeyboardInterrupt is raised at the statement the loop is at; it
\* is no Exception, so no handler of lines 103-131 and 166 catches it
Interrupt ==
    /\ pc \in LoopPcs
    /\ interrupted' = TRUE
    /\ exc' = "KeyboardInterrupt"
    /\ sentiment' = Unbound
    /\ prompt' = Unbound
    /\ pc' = "kbint"
    /\ UNCHANGED <<polls, msg, payload, notes, result, calls, enriched, published,
                   lastLog, closed>>

\* lines 172-173
OnInterrupt ==
    /\ pc = "kbint"
    /\ lastLog' = "\\ud83d\\uded1 Interrupted by user."
    /\ exc' = "none"
    /\ pc' = "finally"
    /\ UNCHANGED <<polls, msg, payload, notes, result, sentiment, prompt,
                   calls, enriched, published, interrupted, closed>>

\* lines 174-175 without consumer.close()
FinallyNoClose ==
    /\ pc = "finally"
    /\ pc' = IF exc = "none" THEN "exit" ELSE "crashed"
    /\ UNCHANGED <<polls, msg, payload, notes, result, sentiment, prompt,
                   calls, enriched, published, lastLog, exc, interrupted,
                   closed>>

\* lines 174-175: the consumer is closed, then the script ends or the
\* pending exception ends it
Finally ==
    /\ pc = "finally"
    /\ closed' = closed + 1
    /\ pc' = IF exc = "none" THEN "exit" ELSE "crashed"
    /\ UNCHANGED <<polls, msg, payload, notes, result, sentiment, prompt,
                   calls, enriched, published, lastLog, exc, interrupted>>

Next ==
    \/ PollNone
    \/ PollError
    \/ PollMessage
    \/ PollRaises
    \/ Parse
    \/ ClassifyPrimary
    \/ ClassifyFallback
    \/ Gate
    \/ ActionPrimary
    \/ ActionFallback
    \/ Merge
    \/ Produce
    \/ ProduceRaises
    \/ Flush
    \/ HandleError
    \/ Sleep
    \/ Interrupt
    \/ OnInterrupt
    \/ Finally

Spec == Init /\ [][Next]_vars

\* the main thread keeps running: once the interrupt handler or the finally
\* block is reached, it is executed
FairSpec == Spec /\ WF_vars(OnInterrupt) /\ WF_vars(Finally)

-----------------------------------------------------------------------------
(* What the properties below read off a state *)

FourFields == {"Caller Notes", "Sentiment Label", "Reason", "Next Action Items"}

\* a dict of exactly the four fields, each a str
WellFormed(r) ==
    /\ Len(r) = 4
    /\ Keys(r) = FourFields
    /\ \A i \in 1..Len(r) : r[i][2][1] = "str" /\ r[i][2][2] \in STRING

\* r[k], a str
Field(r, k) == Lookup(r, k)[2]

\* the invocations made with the sentiment prompt and with the action prompt
\* for the record in hand
SentimentCalls ==
    SelectSeq(calls, LAMBDA c : c.prompt = FormatSentimentPrompt(notes))
ActionCalls ==
    SelectSeq(calls, LAMBDA c : StartsWith(c.prompt, "\nYou are a sales assistant"))

\* the chain of a stage ended with a backend answering / with both failing
Answered(cs) == Len(cs) > 0 /\ cs[Len(cs)].ok
BothFailed(cs) ==
    /\ Len(cs) = 2
    /\ cs[1].llm = Primary /\ ~cs[1].ok
    /\ cs[2].llm = Fallback /\ ~cs[2].ok

\* the trimmed text of the answer that ended a chain
AnswerText(cs) == Strip(cs[Len(cs)].text)

\* t starts with "negative" in any letter case
StartsNegative(t) == Len(t) >= 8 /\ Lower(SubSeq(t, 1, 8)) = "negative"

\* classify_and_generate has just returned to line 158
Returned == pc = "merge"

-----------------------------------------------------------------------------
(* C1: whatever the backends do in the two stages, a call with non-empty   *)
(* notes leaves classify_and_generate only by returning (no Exception      *)
(* reaches line 166), and what it returns is a dict of exactly the four    *)
(* fields, each a str.  (A KeyboardInterrupt is no outcome of a backend.)  *)
C1_Step ==
    pc \in EnginePcs =>
        /\ notes # "" /\ notes = Strip(notes)
        /\ \/ pc' \in EnginePcs /\ exc' = "none"
           \/ pc' = "kbint"
           \/ pc' = "merge" /\ exc' = "none" /\ WellFormed(result')

C1_NeverRaises == [][C1_Step]_vars

\* four invocations, three of them failed, and the call returned a record
C1_Witness ==
    /\ Returned
    /\ Len(calls) = 4
    /\ \A i \in {1, 3, 4} : ~calls[i].ok
    /\ exc = "none"
    /\ WellFormed(result)

(* C2, as amended: when both backends fail on the sentiment prompt the     *)
(* result has Sentiment Label "Unknown" and Next Action Items              *)
(* "\u274c Skipped due to classification error", and no backend is        *)
(* invoked with the action prompt.                                         *)
C2_ClassificationFailure ==
    BothFailed(SentimentCalls) =>
        /\ Len(ActionCalls) = 0
        /\ Len(calls) = 2
        /\ pc \notin EnginePcs
        /\ Returned =>
            /\ Field(result, "Sentiment Label") = "Unknown"
            /\ Field(result, "Next Action Items")
                   = "\\u274c Skipped due to classification error"

\* C2 as stated: Next Action Items is "skipped due to classification error"
C2_Original ==
    BothFailed(SentimentCalls) =>
        /\ Len(ActionCalls) = 0
        /\ Returned =>
            /\ Field(result, "Sentiment Label") = "Unknown"
            /\ Field(result, "Next Action Items")
                   = "skipped due to classification error"

C2_Witness ==
    /\ Returned
    /\ BothFailed(SentimentCalls)
    /\ Field(result, "Sentiment Label") = "Unknown"
    /\ SentimentCalls[1].text # SentimentCalls[2].text

(* C3, as amended: when classification answers with a text that, trimmed,  *)
(* starts with "negative" in any letter case, the result has Next Action   *)
(* Items "\u274c No action recommended due to negative sentiment." and    *)
(* Sentiment Label the trimmed text, and no backend is invoked with the    *)
(* action prompt.                                                          *)
C3_NegativeShortCircuit ==
    (Answered(SentimentCalls) /\ StartsNegative(AnswerText(SentimentCalls))) =>
        /\ Len(ActionCalls) = 0
        /\ pc \notin {"action_primary", "action_fallback"}
        /\ Returned =>
            /\ Field(result, "Next Action Items")
                   = "\\u274c No action recommended due to negative sentiment."
            /\ Field(result, "Sentiment Label") = AnswerText(SentimentCalls)

\* C3 as stated: Next Action Items is
\* "no action recommended due to negative sentiment"
C3_Original ==
    (Answered(SentimentCalls) /\ StartsNegative(AnswerText(SentimentCalls))) =>
        /\ Len(ActionCalls) = 0
        /\ Returned =>
            /\ Field(result, "Next Action Items")
                   = "no action recommended due to negative sentiment"
            /\ Field(result, "Sentiment Label") = AnswerText(SentimentCalls)

\* the fallback answered " NEGATIVE - tone was curt" and the call returned
C3_Witness ==
    /\ Returned
    /\ Len(SentimentCalls) = 2
    /\ SentimentCalls[2].ok
    /\ SentimentCalls[2].text = " NEGATIVE - tone was curt"
    /\ Field(result, "Sentiment Label") = "NEGATIVE - tone was curt"

(* C4: in the classification stage the primary is invoked first and once;  *)
(* the fallback is invoked, once and after it, exactly when the primary    *)
(* failed; and when the fallback then answers, Sentiment Label is its      *)
(* trimmed output.                                                         *)
C4_FailoverOrdering ==
    LET cs == SentimentCalls IN
    Len(cs) > 0 =>
        /\ Len(cs) <= 2
        /\ \A i \in 1..Len(cs) : calls[i] = cs[i]
        /\ cs[1].llm = Primary
        /\ cs[1].ok => Len(cs) = 1
        /\ Len(cs) = 2 => ~cs[1].ok /\ cs[2].llm = Fallback
        /\ (~cs[1].ok /\ pc # "classify_fallback" /\ ~interrupted) => Len(cs) = 2
        /\ (Returned /\ Len(cs) = 2 /\ cs[2].ok) =>
               Field(result, "Sentiment Label") = Strip(cs[2].text)

\* the primary failed, the fallback answered a text that needed trimming
C4_Witness ==
    /\ Returned
    /\ Len(SentimentCalls) = 2
    /\ ~SentimentCalls[1].ok
    /\ SentimentCalls[2].ok
    /\ SentimentCalls[2].text # Strip(SentimentCalls[2].text)
    /\ Field(result, "Sentiment Label") = Strip(SentimentCalls[2].text)

(* C5: when classification answers a label that is not negative and the    *)
(* action chain answers, Next Action Items is the trimmed output of the    *)
(* backend that answered (the primary if it answered, else the fallback)   *)
(* and Sentiment Label is the trimmed classification text.                 *)
C5_ActionTextVerbatim ==
    LET as == ActionCalls IN
    (Returned /\ Answered(SentimentCalls)
       /\ ~StartsNegative(AnswerText(SentimentCalls)) /\ Answered(as)) =>
        /\ Field(result, "Next Action Items") = Strip(as[Len(as)].text)
        /\ Field(result, "Sentiment Label") = AnswerText(SentimentCalls)
        /\ as[1].llm = Primary
        /\ as[1].ok => Len(as) = 1
        /\ ~as[1].ok => Len(as) = 2 /\ as[2].llm = Fallback

\* the primary answered the action prompt with a text that needed trimming
C5_Witness ==
    /\ Returned
    /\ Answered(SentimentCalls)
    /\ Len(ActionCalls) = 1
    /\ ActionCalls[1].ok
    /\ ActionCalls[1].text # Strip(ActionCalls[1].text)
    /\ Field(result, "Next Action Items") = Strip(ActionCalls[1].text)

\* both backends failed on the action prompt
ActionChainFailed == BothFailed(ActionCalls)

\* the bytes of the inbound record in hand with d stored under "result"
MergedWith(d) ==
    <<"json", Obj(DictSet(LoadObject(msg.value[2][2]), "result", Obj(d)))>>

(* C6: when classification answers a label that is not negative and both   *)
(* backends fail on the action prompt, classify_and_generate still returns *)
(* (no Exception reaches line 166): a four-field result whose Next Action  *)
(* Items is a failure description carrying the fallback's error, whose     *)
(* Reason is the one of a successful classification and whose Sentiment    *)
(* Label is the trimmed classification text; and the loop goes on to merge *)
(* that result into the record and hand it to the producer, so that it is  *)
(* in the output unless the producer itself raises or the interrupt comes. *)
C6_Returned ==
    (ActionChainFailed /\ pc \in {"merge", "produce", "flush"}) =>
        /\ exc = "none"
        /\ Answered(SentimentCalls)
        /\ ~StartsNegative(AnswerText(SentimentCalls))
        /\ WellFormed(result)
        /\ Field(result, "Next Action Items")
               = "\\u274c Both LLMs failed for action generation: "
                     \o ActionCalls[2].text
        /\ Field(result, "Reason") = "Sentiment identified via Groq LLM"
        /\ Field(result, "Sentiment Label") = AnswerText(SentimentCalls)
        /\ pc = "flush" =>
              /\ enriched = MergedWith(result)
              /\ Len(published) > 0
              /\ published[Len(published)] = msg.seq

C6_Step ==
    /\ (pc = "action_fallback" /\ ~interrupted') =>
           pc' = "merge" /\ exc' = "none"
    /\ (ActionChainFailed /\ pc = "merge" /\ ~interrupted') => pc' = "produce"
    /\ (ActionChainFailed /\ pc = "produce" /\ ~interrupted') =>
           \/ pc' = "flush" /\ published' = Append(published, msg.seq)
           \/ pc' = "except" /\ exc' = "Exception" /\ published' = published

C6_ActionFailureNonTerminal == [](C6_Returned) /\ [][C6_Step]_vars

\* both backends failed on the action prompt and the record is in the output
C6_Witness ==
    /\ pc = "flush"
    /\ ActionChainFailed
    /\ ActionCalls[1].text # ActionCalls[2].text
    /\ enriched = MergedWith(result)
    /\ published[Len(published)] = msg.seq

-----------------------------------------------------------------------------
(* Properties of the loop *)

\* every character of t is one str.strip() removes
AllSpace(t) == \A i \in 1..Len(t) : IsSpace(SubSeq(t, i, i))

\* the record's document is an object whose comments are absent, empty or
\* whitespace-only
NoNotes(raw) ==
    /\ raw[1] = "json"
    /\ raw[2][1] = "obj"
    /\ LET d == LoadObject(raw[2][2]) IN
       \/ ~HasKey(d, "comments")
       \/ /\ Lookup(d, "comments")[1] = "str"
          /\ AllSpace(Lookup(d, "comments")[2])

\* the record holds no JSON object
Malformed(raw) == raw[1] # "json" \/ raw[2][1] # "obj"

\* the loop has a record in hand
InHand == pc \in {"parse", "except", "sleep"} /\ ~msg.none

\* the line line 148 prints
IsKafkaErrorLine(t) == StartsWith(t, "\\u26a0\\ufe0f Kafka error: ")

(* C7: an error raised while one record is processed is followed by the    *)
(* rest of the iteration and a further poll, and the loop leaves its       *)
(* polling state only on the external interrupt.                           *)
C7_Step ==
    /\ (pc = "except" /\ ~interrupted') => pc' = "sleep" /\ exc' = "none"
    /\ (pc = "sleep" /\ ~interrupted') => pc' = "poll"
    /\ (pc \in LoopPcs /\ pc' \notin LoopPcs) => interrupted'

C7_Original == [][C7_Step]_vars

\* the part of C7 about the record in hand: an Exception raised at lines
\* 152-163 is handled at line 166 and the loop is back at line 144
C7_PerRecord ==
    [][/\ (pc = "except" /\ ~interrupted') => pc' = "sleep" /\ exc' = "none"
       /\ (pc = "sleep" /\ ~interrupted') => pc' = "poll"
       /\ (pc \in LoopPcs \ {"poll"} /\ pc' \notin LoopPcs) => interrupted']_vars

(* C8: whenever a poll faults, by returning a message whose error() is set *)
(* or by raising, the fault is logged, nothing is published for it and the *)
(* loop is at the poll again.                                              *)
C8_Step ==
    (pc = "poll" /\ polls' = polls + 1
        /\ (msg'.error # "" \/ exc' = "Exception")) =>
        /\ IsKafkaErrorLine(lastLog')
        /\ published' = published
        /\ pc' = "poll"

C8_Original == [][C8_Step]_vars

\* the part of C8 about a message whose error() is set
C8_ErrorMessage ==
    [][(pc = "poll" /\ polls' = polls + 1 /\ msg'.error # "" /\ exc' = "none") =>
           /\ lastLog' = "\\u26a0\\ufe0f Kafka error: " \o msg'.error
           /\ published' = published
           /\ pc' = "poll"]_vars

(* C9: a record whose comments are absent, empty or whitespace-only, and a *)
(* record whose payload is malformed, gets no output record and no backend *)
(* invocation, and the loop goes on to the next poll: the first straight   *)
(* from line 156, the second through the handler of line 166 and the sleep.*)
C9_State ==
    (InHand /\ (NoNotes(msg.value) \/ Malformed(msg.value))) =>
        /\ calls = <<>>
        /\ \A i \in 1..Len(published) : published[i] # msg.seq

C9_Step ==
    /\ (pc = "parse" /\ NoNotes(msg.value) /\ ~interrupted') =>
           pc' = "poll" /\ published' = published /\ calls' = <<>>
    /\ (pc = "parse" /\ Malformed(msg.value) /\ ~interrupted') =>
           pc' = "except" /\ published' = published /\ calls' = <<>>
    /\ (pc \in {"except", "sleep"} /\ Malformed(msg.value) /\ ~interrupted') =>
           /\ pc' = IF pc = "except" THEN "sleep" ELSE "poll"
           /\ published' = published
           /\ calls' = <<>>
    /\ (pc = "poll" /\ ~interrupted' /\ polls' = polls) => FALSE

C9_NoNotesNoOutput == [](C9_State) /\ [][C9_Step]_vars

\* a record without notes was skipped at the first poll, the second poll
\* was made and returned a malformed record, and nothing is in the output
C9_Witness ==
    /\ polls = 2
    /\ pc = "except"
    /\ Malformed(msg.value)
    /\ lastLog = "\\u26a0\\ufe0f Skipping empty comment field"
    /\ published = <<>>
    /\ calls = <<>>

(* C10: once the interrupt has arrived, at whatever statement of the loop, *)
(* no poll is made any more, and however the loop is left (interrupt or    *)
(* an exception of the poll) the consumer is closed, exactly once.         *)
C10_State ==
    /\ closed <= 1
    /\ pc \in {"exit", "crashed"} => closed = 1
    /\ pc \in LoopPcs \cup {"kbint", "finally"} => closed = 0
    /\ interrupted => pc \in {"kbint", "finally", "exit"}

C10_Step ==
    /\ interrupted => polls' = polls
    /\ (pc \in LoopPcs /\ pc' \notin LoopPcs) => pc' \in {"kbint", "finally"}
    /\ pc = "kbint" => pc' = "finally"
    /\ pc = "finally" => pc' \in {"exit", "crashed"} /\ closed' = closed + 1
    /\ pc \in {"exit", "crashed"} => FALSE

C10_InterruptReleases ==
    /\ [](C10_State)
    /\ [][C10_Step]_vars
    /\ (pc \notin LoopPcs) ~> (closed = 1 /\ pc \in {"exit", "crashed"})

\* the interrupt arrived while the fallback was about to be invoked with the
\* action prompt, and the consumer was closed
C10_Witness ==
    /\ pc = "exit"
    /\ interrupted
    /\ closed = 1
    /\ Len(calls) = 3
    /\ polls < MaxPolls

-----------------------------------------------------------------------------
(* Properties of the records that reach line 158 *)

\* how many records of the output topic derive from the record polled as
\* number n
Outputs(n) == Cardinality({i \in 1..Len(published) : published[i] = n})

\* the record in hand passed the test of line 154
ReachedEngine == notes # Unbound

(* C11: a record that reaches classify_and_generate is never lost to a     *)
(* backend failure.  Whatever the backends do, the call returns, the       *)
(* result is merged and handed to the producer; once produce has returned  *)
(* the output holds exactly one record for it, the inbound record with the *)
(* result, and the result names the failure (label "Unknown" and the       *)
(* fallback's error in Reason when classification failed, the fallback's   *)
(* error in Next Action Items when the action chain failed).  The record   *)
(* is left without output only when produce itself raises, which the       *)
(* handler of line 166 logs, or when the interrupt arrives.                *)
C11_State ==
    /\ ReachedEngine => Outputs(msg.seq) <= 1
    /\ (ReachedEngine /\ pc \in EnginePcs \cup {"merge", "produce"}) =>
           Outputs(msg.seq) = 0 /\ exc = "none"
    /\ (ReachedEngine /\ pc = "flush") =>
           /\ Outputs(msg.seq) = 1
           /\ WellFormed(result)
           /\ enriched = MergedWith(result)
           /\ BothFailed(SentimentCalls) =>
                 /\ Field(result, "Sentiment Label") = "Unknown"
                 /\ Field(result, "Reason")
                        = "\\u274c Both LLMs failed for sentiment: "
                              \o SentimentCalls[2].text
           /\ BothFailed(ActionCalls) =>
                 Field(result, "Next Action Items")
                     = "\\u274c Both LLMs failed for action generation: "
                           \o ActionCalls[2].text
    /\ (ReachedEngine /\ pc = "sleep") =>
           \/ Outputs(msg.seq) = 1
                  /\ lastLog = "\\u2705 Published enriched message to "
           \/ Outputs(msg.seq) = 0 /\ lastLog = "[PROCESSING ERROR]"

C11_Step ==
    /\ (pc \in EnginePcs /\ ~interrupted') => pc' \in EnginePcs \cup {"merge"}
    /\ (pc = "merge" /\ ~interrupted') => pc' = "produce"
    /\ (pc = "produce" /\ ~interrupted') =>
           \/ pc' = "flush" /\ published' = Append(published, msg.seq)
           \/ pc' = "except" /\ exc' = "Exception" /\ published' = published
    /\ pc # "produce" => published' = published

C11_DegradedOutput == [](C11_State) /\ [][C11_Step]_vars

\* both backends failed on the sentiment prompt and the record is in the
\* output, once, with the result that says so
C11_Witness ==
    /\ pc = "flush"
    /\ BothFailed(SentimentCalls)
    /\ Outputs(msg.seq) = 1
    /\ enriched = MergedWith(result)
    /\ Field(result, "Reason")
           = "\\u274c Both LLMs failed for sentiment: rate limit exceeded"

\* the object json.loads yields for the inbound record in hand
Inbound == LoadObject(msg.value[2][2])

\* the record in hand has been written to the output topic
InOutput == ~msg.none /\ Outputs(msg.seq) = 1

C12_Untrimmed ==
    /\ pc = "flush"
    /\ InOutput
    /\ Lookup(enriched[2][2], "comments")
           = Str(" Customer loved the demo, wants pricing info \n")
    /\ Field(result, "Caller Notes")
           = "Customer loved the demo, wants pricing info"

-----------------------------------------------------------------------------
(* C13: the loop handles one record at a time, in the order polled.  A     *)
(* poll is made only at line 144, with no record in hand: the record       *)
(* polled before was written to the output (line 162), skipped (line 156)  *)
(* or dropped by the handler of line 166.  The output topic holds at most  *)
(* one record per inbound record, in the order the inbound records were    *)
(* polled.                                                                 *)
C13_State ==
    /\ \A i \in 1..Len(published) :
           /\ published[i] \in 1..polls
           /\ \A j \in 1..Len(published) : i < j => published[i] < published[j]
    /\ pc \in LoopPcs \ {"poll"} => ~msg.none /\ msg.seq = polls
    /\ pc = "poll" =>
           /\ notes = Unbound
           /\ payload = <<"null">>
           /\ enriched = <<"none">>
           /\ msg.none \/ msg.error # ""

C13_Step ==
    /\ polls' # polls => pc = "poll" /\ polls' = polls + 1
    /\ (pc \in LoopPcs \ {"poll"} /\ pc' = "poll") =>
           \/ /\ pc = "parse"
              /\ lastLog' = "\\u26a0\\ufe0f Skipping empty comment field"
              /\ Outputs(polls) = 0
           \/ /\ pc = "sleep"
              /\ lastLog = "\\u2705 Published enriched message to "
              /\ Outputs(polls) = 1
              /\ published[Len(published)] = polls
           \/ /\ pc = "sleep"
              /\ lastLog = "[PROCESSING ERROR]"
              /\ Outputs(polls) = 0
    /\ published' # published =>
           /\ pc = "produce"
           /\ published' = Append(published, polls)

C13_OneAtATime == [](C13_State) /\ [][C13_Step]_vars

\* three records polled: the first written to the output, the second left
\* without one, the third written to the output after the first
C13_Witness ==
    /\ polls = 3
    /\ pc = "flush"
    /\ published = <<1, 3>>

-----------------------------------------------------------------------------
(* Properties of one call of classify_and_generate, read off the log of    *)
(* its invocations                                                         *)

\* how many times backend llm was invoked with prompt p in the call
Attempts(llm, p) ==
    Cardinality({i \in 1..Len(calls) : calls[i].llm = llm /\ calls[i].prompt = p})

(* C14: within one call every invocation is made with the sentiment prompt *)
(* or with the action prompt; a backend is invoked at most once with a     *)
(* prompt; the first invocation with a prompt goes to the primary; the     *)
(* fallback is invoked only directly after the primary failed on the same  *)
(* prompt; nothing is invoked with a prompt after the fallback was; so     *)
(* there are at most two invocations with each prompt.                     *)
C14_OneAttemptPerBackend ==
    /\ Len(SentimentCalls) <= 2
    /\ Len(ActionCalls) <= 2
    /\ Len(calls) = Len(SentimentCalls) + Len(ActionCalls)
    /\ \A i \in 1..Len(calls) :
           /\ calls[i].llm \in {Primary, Fallback}
           /\ Attempts(calls[i].llm, calls[i].prompt) = 1
           /\ calls[i].llm = Fallback =>
                  /\ i > 1
                  /\ calls[i - 1].llm = Primary
                  /\ ~calls[i - 1].ok
                  /\ calls[i - 1].prompt = calls[i].prompt
           /\ calls[i].llm = Primary =>
                  \A j \in 1..(i - 1) : calls[j].prompt # calls[i].prompt
           /\ (calls[i].llm = Primary /\ i > 1) => calls[i - 1].ok
           /\ (calls[i].llm = Primary /\ calls[i].ok /\ i < Len(calls)) =>
                  calls[i + 1].prompt # calls[i].prompt

\* the primary failed and the fallback was invoked in both stages
C14_Witness ==
    /\ Returned
    /\ Len(SentimentCalls) = 2
    /\ Len(ActionCalls) = 2
    /\ Attempts(Primary, ActionCalls[1].prompt) = 1
    /\ Attempts(Fallback, ActionCalls[1].prompt) = 1
    /\ ~SentimentCalls[1].ok
    /\ ~ActionCalls[1].ok

\* the action prompt has been rendered (line 123) and the call is at an
\* invocation with it
AtActionStage == pc \in {"action_primary", "action_fallback"}

(* C15, as amended: whenever the action prompt is rendered and a backend   *)
(* is invoked with it, classification succeeded and the label in the       *)
(* prompt is the trimmed text the answering backend returned, which does   *)
(* not start with "negative" in any letter case, so is not "Negative"; it  *)
(* is "Unknown" only when a backend returned that text, never because      *)
(* classification failed.                                                  *)
C15_LabelAtActionStage ==
    /\ AtActionStage =>
           /\ Answered(SentimentCalls)
           /\ ~BothFailed(SentimentCalls)
           /\ sentiment = AnswerText(SentimentCalls)
           /\ ~StartsNegative(sentiment)
           /\ sentiment # "Negative"
           /\ prompt = FormatActionPrompt(notes, sentiment)
           /\ sentiment = "Unknown" =>
                  Strip(SentimentCalls[Len(SentimentCalls)].text) = "Unknown"
    /\ \A i \in 1..Len(ActionCalls) :
           /\ Answered(SentimentCalls)
           /\ ActionCalls[i].prompt
                  = FormatActionPrompt(notes, AnswerText(SentimentCalls))

\* C15 as stated: the label at the action stage is neither "Negative" nor
\* "Unknown"
C15_Original == AtActionStage => sentiment \notin {"Negative", "Unknown"}

\* a backend answered "Unknown" and the primary was invoked with the action
\* prompt rendered with that label
C15_Witness ==
    /\ pc = "action_fallback"
    /\ sentiment = "Unknown"
    /\ Answered(SentimentCalls)
    /\ Len(ActionCalls) = 1
    /\ ActionCalls[1].prompt = FormatActionPrompt(notes, "Unknown")

\* classification answered, and the trimmed answer passes the test the claim
\* states for the gate
PassesGate ==
    Answered(SentimentCalls) /\ ~StartsNegative(AnswerText(SentimentCalls))

(* C16: what line 115 decides depends on the trimmed label alone.  From    *)
(* the gate the call goes to the action stage exactly when the label does  *)
(* not start with "negative" in any letter case, and returns otherwise;    *)
(* and a call that has returned has invoked a backend with the action      *)
(* prompt exactly when classification answered such a label.  An empty     *)
(* label, and a label with "negative" after another word, go to the action *)
(* stage.                                                                  *)
C16_State ==
    /\ pc = "gate" => Answered(SentimentCalls)
                          /\ sentiment = AnswerText(SentimentCalls)
    /\ (AtActionStage \/ Len(ActionCalls) > 0) => PassesGate
    /\ Returned => (Len(ActionCalls) > 0 <=> PassesGate)
    /\ (Returned /\ Field(result, "Sentiment Label")
                        \in {"", "Not negative: wants a callback"}) =>
           Len(ActionCalls) > 0

C16_Step ==
    (pc = "gate" /\ ~interrupted') =>
        /\ pc' = IF StartsNegative(sentiment) THEN "merge" ELSE "action_primary"
        /\ calls' = calls

C16_GateIsPrefixTest == [](C16_State) /\ [][C16_Step]_vars

\* the label has "negative" after another word and the call went through
\* the action stage
C16_Witness ==
    /\ Returned
    /\ Field(result, "Sentiment Label") = "Not negative: wants a callback"
    /\ Len(ActionCalls) > 0
    /\ Field(result, "Reason") = "Sentiment identified via Groq LLM"

\* the label is empty and the call went through the action stage
C16_EmptyLabel ==
    /\ Returned
    /\ Answered(SentimentCalls)
    /\ Field(result, "Sentiment Label") = ""
    /\ Len(ActionCalls) > 0

\* how far the call has got: every statement of lines 101-138 moves on
Rank(p) ==
    CASE p = "classify_primary" -> 0
      [] p = "classify_fallback" -> 1
      [] p = "gate" -> 2
      [] p = "action_primary" -> 3
      [] p = "action_fallback" -> 4
      [] OTHER -> 5

\* the three ways a call ends, read off its invocations
ClassificationFailed == BothFailed(SentimentCalls)
NegativeLabel ==
    Answered(SentimentCalls) /\ StartsNegative(AnswerText(SentimentCalls))
ActionStageReached == Len(ActionCalls) > 0

(* C17, as amended: a call that returns has ended in exactly one of three  *)
(* ways, and Reason tells which: it is "\u274c Both LLMs failed for        *)
(* sentiment: " and the fallback's error exactly when both backends failed *)
(* on the sentiment prompt, "Negative sentiment detected" exactly when     *)
(* classification answered a negative label, and "Sentiment identified via *)
(* Groq LLM" exactly when the action stage was reached, whether the action *)
(* chain then answered or failed.  Every step of the call moves it on, and *)
(* it makes at most four invocations.                                      *)
C17_State ==
    /\ Len(calls) <= 4
    /\ Returned =>
           /\ Cardinality({o \in {"failed", "negative", "action"} :
                  \/ o = "failed" /\ ClassificationFailed
                  \/ o = "negative" /\ NegativeLabel
                  \/ o = "action" /\ ActionStageReached}) = 1
           /\ ClassificationFailed <=>
                  Field(result, "Reason")
                      = "\\u274c Both LLMs failed for sentiment: "
                            \o calls[Len(calls)].text
           /\ NegativeLabel <=>
                  Field(result, "Reason") = "Negative sentiment detected"
           /\ ActionStageReached <=>
                  Field(result, "Reason") = "Sentiment identified via Groq LLM"

C17_Step ==
    pc \in EnginePcs =>
        /\ pc' = "kbint" \/ Rank(pc') > Rank(pc)
        /\ Len(calls') <= Len(calls) + 1
        /\ Rank(pc') = 5 => pc' \in {"merge", "kbint"}

C17_ThreeOutcomes == [](C17_State) /\ [][C17_Step]_vars

\* C17 as stated: the Reason of a negative label is "negative sentiment
\* detected" and the Reason of a call that reached the action stage is
\* "sentiment identified via generation backend"
C17_Original ==
    Returned =>
        /\ NegativeLabel <=>
               Field(result, "Reason") = "negative sentiment detected"
        /\ ActionStageReached <=>
               Field(result, "Reason")
                   = "sentiment identified via generation backend"

\* four invocations, the action chain failed, and Reason is the one of a
\* call that reached the action stage
C17_Witness ==
    /\ Returned
    /\ Len(calls) = 4
    /\ ActionStageReached
    /\ BothFailed(ActionCalls)
    /\ Field(result, "Reason") = "Sentiment identified via Groq LLM"

-----------------------------------------------------------------------------
(* C18: wherever the loop is inside classify_and_generate, the notes it    *)
(* was called with are not empty and not whitespace-only: they are the     *)
(* text of the record's "comments" field, a str, without the whitespace at *)
(* its two ends, and that text has a character left.  The call is made     *)
(* only from line 158, past the test of line 154, and every invocation     *)
(* with the sentiment prompt carries these notes.                          *)
C18_State ==
    /\ pc \in EnginePcs =>
           /\ notes \in STRING
           /\ Len(notes) > 0
           /\ ~AllSpace(notes)
           /\ ~IsSpace(SubSeq(notes, 1, 1))
           /\ ~IsSpace(SubSeq(notes, Len(notes), Len(notes)))
           /\ HasKey(Inbound, "comments")
           /\ Lookup(Inbound, "comments")[1] = "str"
           /\ \E i, j \in 1..Len(Lookup(Inbound, "comments")[2]) :
                  /\ notes = SubSeq(Lookup(Inbound, "comments")[2], i, j)
                  /\ AllSpace(SubSeq(Lookup(Inbound, "comments")[2], 1, i - 1))
                  /\ AllSpace(SubSeq(Lookup(Inbound, "comments")[2], j + 1,
                                     Len(Lookup(Inbound, "comments")[2])))
    /\ pc \in EnginePcs \ {"classify_primary"} =>
           /\ Len(calls) > 0
           /\ calls[1].prompt = FormatSentimentPrompt(notes)

C18_Step ==
    (pc \notin EnginePcs /\ pc' \in EnginePcs) =>
        /\ pc = "parse"
        /\ pc' = "classify_primary"
        /\ ~NoNotes(msg.value)
        /\ ~Malformed(msg.value)

C18_NotesNeverBlank == [](C18_State) /\ [][C18_Step]_vars

\* the call was made with the comments of a record that had whitespace at
\* both ends, and the primary was invoked with the trimmed notes
C18_Witness ==
    /\ pc = "classify_fallback"
    /\ Lookup(Inbound, "comments")
           = Str(" Customer loved the demo, wants pricing info \n")
    /\ notes = "Customer loved the demo, wants pricing info"
    /\ Len(calls) = 1
    /\ calls[1].prompt = FormatSentimentPrompt(notes)

-----------------------------------------------------------------------------
\* the dict a call returns, as a function of its notes n and of the outcomes
\* cs of the invocations it made, in the order made
ResultOf(n, cs) ==
    LET sc == SelectSeq(cs, LAMBDA c : c.prompt = FormatSentimentPrompt(n))
        ac == SelectSeq(cs, LAMBDA c : c.prompt # FormatSentimentPrompt(n))
        label == Strip(sc[Len(sc)].text)
    IN  IF ~sc[Len(sc)].ok
        THEN << <<"Caller Notes", <<"str", n>>>>,
                <<"Sentiment Label", <<"str", "Unknown">>>>,
                <<"Reason", <<"str", "\\u274c Both LLMs failed for sentiment: "
                                         \o sc[Len(sc)].text>>>>,
                <<"Next Action Items",
                  <<"str", "\\u274c Skipped due to classification error">>>> >>
        ELSE IF StartsNegative(label)
        THEN << <<"Caller Notes", <<"str", n>>>>,
                <<"Sentiment Label", <<"str", label>>>>,
                <<"Reason", <<"str", "Negative sentiment detected">>>>,
                <<"Next Action Items",
                  <<"str", "\\u274c No action recommended due to negative sentiment.">>>> >>
        ELSE << <<"Caller Notes", <<"str", n>>>>,
                <<"Sentiment Label", <<"str", label>>>>,
                <<"Reason", <<"str", "Sentiment identified via Groq LLM">>>>,
                <<"Next Action Items",
                  <<"str", IF ac[Len(ac)].ok
                           THEN Strip(ac[Len(ac)].text)
                           ELSE "\\u274c Both LLMs failed for action generation: "
                                    \o ac[Len(ac)].text>>>> >>

(* C19: nothing a call leaves behind is read by a later call.  The dict a  *)
(* call returns is the value of one function of its notes and of the       *)
(* outcomes of the invocations it made, whatever records were polled       *)
(* before and whatever the backends did on them; every call starts with no *)
(* label and no prompt bound and invokes the primary first with the        *)
(* sentiment prompt of its own notes; and its action stage invokes the     *)
(* primary first whether or not the primary failed on the sentiment        *)
(* prompt.  At the poll nothing of the call is bound.                      *)
C19_State ==
    /\ Returned => result = ResultOf(notes, calls)
    /\ Len(calls) > 0 =>
           /\ calls[1].llm = Primary
           /\ calls[1].prompt = FormatSentimentPrompt(notes)
    /\ Len(ActionCalls) > 0 =>
           /\ ActionCalls[1].llm = Primary
           /\ ActionCalls[1].prompt
                  = FormatActionPrompt(notes, AnswerText(SentimentCalls))
    /\ pc \in {"poll", "parse"} =>
           calls = <<>> /\ sentiment = Unbound /\ prompt = Unbound

C19_Step ==
    pc' = "classify_primary" =>
        /\ pc = "parse"
        /\ calls' = <<>>
        /\ sentiment' = Unbound
        /\ prompt' = Unbound

C19_NoStateAcrossCalls == [](C19_State) /\ [][C19_Step]_vars

\* an earlier record has gone through the engine; in the call for the
\* record in hand the primary failed on the sentiment prompt, and the
\* primary was invoked again, first, with the action prompt
C19_Witness ==
    /\ Returned
    /\ polls >= 2
    /\ Len(published) >= 1
    /\ Len(calls) = 3
    /\ calls[1].llm = Primary /\ ~calls[1].ok
    /\ calls[2].llm = Fallback /\ calls[2].ok
    /\ calls[3].llm = Primary /\ calls[3].ok
    /\ result = ResultOf(notes, calls)

====
